---- MODULE Spec2Model ----
(***************************************************************************)
(* Model of the VoxelRenderResources constructor                           *)
(* (packages/engine/Source/Scene/VoxelRenderResources.js): the assembly of *)
(* the voxel shader program and of its uniform map from a VoxelPrimitive.  *)
(*                                                                         *)
(* The constructor is synchronous straight-line code, so one construction  *)
(* is one action.  The primitive is the input: Init draws it from bounded  *)
(* sets, and the constructor may run again on the same primitive.          *)
(*                                                                         *)
(* The imported shader sources (VoxelFS, Octree, ...) are opaque texts and *)
(* are written as the name of the import.  ShaderBuilder, combine and      *)
(* Cartesian3 are imported by the file and are not part of it; they are    *)
(* modelled from the specification of the system.                          *)
(***************************************************************************)
EXTENDS Integers, Sequences, FiniteSets

VARIABLES
    primitive,   \* the VoxelPrimitive handed to the constructor
    resources,   \* the VoxelRenderResources object built last ("this")
    builds,      \* how many constructions have run on the primitive
    firstWins    \* combine(a, b): whether a's entry wins on a shared key

vars == <<primitive, resources, builds, firstWins>>

----------------------------------------------------------------------------
(* Bounds of the model. *)

\* clippingPlanes.length ranges over 0..MaxPlanes
MaxPlanes == 3
\* shape.shaderMaximumIntersectionsLength ranges over 0..MaxShapeIntersections
MaxShapeIntersections == 1
\* constructions run on one primitive
MaxBuilds == 2

----------------------------------------------------------------------------
(* JavaScript values that reach ShaderBuilder.addDefine. *)

\* a define value as the builder stores it: no text, a number, or a text
NoValue == [kind |-> "none", num |-> 0, text |-> ""]
NumberValue(n) == [kind |-> "number", num |-> n, text |-> ""]
TextValue(s) == [kind |-> "text", num |-> 0, text |-> s]

\* the values an entry of shape.shaderDefines holds
JsUndefined == [kind |-> "undefined", num |-> 0]
JsTrue == [kind |-> "true", num |-> 0]
JsNumber(n) == [kind |-> "number", num |-> n]

Digit(d) ==
    CASE d = 0 -> "0" [] d = 1 -> "1" [] d = 2 -> "2" [] d = 3 -> "3"
      [] d = 4 -> "4" [] d = 5 -> "5" [] d = 6 -> "6" [] d = 7 -> "7"
      [] d = 8 -> "8" [] d = 9 -> "9"

\* `${n}` for a non-negative integer n: its decimal digits
RECURSIVE TemplateString(_)
TemplateString(n) ==
    IF n < 10 THEN Digit(n) ELSE TemplateString(n \div 10) \o Digit(n % 10)

----------------------------------------------------------------------------
(* Sequence helpers. *)

Range(s) == {s[i] : i \in 1..Len(s)}
Positions(s, x) == {i \in 1..Len(s) : s[i] = x}
Count(s, x) == Cardinality(Positions(s, x))
\* the position of x in s when x occurs exactly once, else 0
IndexOf(s, x) == IF Count(s, x) = 1 THEN CHOOSE i \in Positions(s, x) : TRUE ELSE 0

----------------------------------------------------------------------------
(* ShaderBuilder. *)

FRAGMENT == "FRAGMENT"
VERTEX == "VERTEX"

\* new ShaderBuilder()
ShaderBuilder ==
    [vertexLines |-> <<>>, fragmentLines |-> <<>>,
     vertexUniforms |-> <<>>, fragmentUniforms |-> <<>>,
     vertexDefines |-> <<>>, fragmentDefines |-> <<>>,
     failed |-> FALSE]

\* a name declared again with another value or type fails the build
Conflicts(decls, name, payload) ==
    \E i \in 1..Len(decls) : decls[i].name = name /\ decls[i] # payload

addUniform(b, type, name, destination) ==
    LET decl == [type |-> type, name |-> name]
        old == IF destination = VERTEX THEN b.vertexUniforms ELSE b.fragmentUniforms
    IN  IF b.failed THEN b
        ELSE IF Conflicts(old, name, decl) THEN [b EXCEPT !.failed = TRUE]
        ELSE IF destination = VERTEX
             THEN [b EXCEPT !.vertexUniforms = Append(@, decl)]
             ELSE [b EXCEPT !.fragmentUniforms = Append(@, decl)]

addDefine(b, identifier, value, destination) ==
    LET decl == [name |-> identifier, value |-> value]
        old == IF destination = VERTEX THEN b.vertexDefines ELSE b.fragmentDefines
    IN  IF b.failed THEN b
        ELSE IF Conflicts(old, identifier, decl) THEN [b EXCEPT !.failed = TRUE]
        ELSE IF destination = VERTEX
             THEN [b EXCEPT !.vertexDefines = Append(@, decl)]
             ELSE [b EXCEPT !.fragmentDefines = Append(@, decl)]

addVertexLines(b, lines) ==
    IF b.failed THEN b ELSE [b EXCEPT !.vertexLines = @ \o lines]

addFragmentLines(b, lines) ==
    IF b.failed THEN b ELSE [b EXCEPT !.fragmentLines = @ \o lines]

----------------------------------------------------------------------------
(* combine and Cartesian3. *)

\* a uniform map: a JavaScript object (id) holding name -> accessor entries
UniformMapObject(id, entries) == [id |-> id, entries |-> entries]

\* combine(object1, object2): a new object with the keys of both.  Which
\* object's entry is kept for a key they share is left open by the design
\* notes of the system, so both precedences are explored (firstWins).
combine(object1, object2, id) ==
    UniformMapObject(id,
        [k \in DOMAIN object1.entries \cup DOMAIN object2.entries |->
            IF k \in DOMAIN object1.entries
               /\ (firstWins \/ k \notin DOMAIN object2.entries)
            THEN object1.entries[k]
            ELSE object2.entries[k]])

Cartesian3ZERO == <<0, 0, 0>>
Cartesian3equals(left, right) ==
    left[1] = right[1] /\ left[2] = right[2] /\ left[3] = right[3]

----------------------------------------------------------------------------
(* The constructor, block by block.  Each operator takes the shader        *)
(* builder as it stands and returns it as the block leaves it.             *)

\* for (const uniformName in customShaderUniforms): one declaration per key
RECURSIVE AddCustomShaderUniforms(_, _)
AddCustomShaderUniforms(b, customShaderUniforms) ==
    IF customShaderUniforms = <<>> THEN b
    ELSE LET uniform == Head(customShaderUniforms)
         IN  AddCustomShaderUniforms(
                 addUniform(b, uniform.type, uniform.name, FRAGMENT),
                 Tail(customShaderUniforms))

MegatextureUniformName == "u_megatextureTextures[METADATA_COUNT]"

\* variant: the reserved uniform is declared only along with custom uniforms
AddMegatextureUniformWithCustomOnly(b) ==
    IF b.fragmentUniforms # <<>>
    THEN addUniform(b, "sampler2D", MegatextureUniformName, FRAGMENT)
    ELSE b

AddMegatextureUniform(b) ==
    addUniform(b, "sampler2D", MegatextureUniformName, FRAGMENT)

\* defined(clippingPlanes) && clippingPlanes.enabled ? clippingPlanes.length : 0
ClippingPlanesLength(clippingPlanes) ==
    IF clippingPlanes.defined /\ clippingPlanes.enabled
    THEN clippingPlanes.length
    ELSE 0

AddVertexShader(b) == addVertexLines(b, <<"VoxelVS">>)

\* variant: the line marker is put before the custom shader text
AddBaseFragmentLinesMarkerFirst(b, customShader) ==
    addFragmentLines(b,
        <<"#line 0", customShader.fragmentShaderText,
          "Octree", "IntersectionUtils", "Megatexture">>)

AddBaseFragmentLines(b, customShader) ==
    addFragmentLines(b,
        <<customShader.fragmentShaderText, "#line 0",
          "Octree", "IntersectionUtils", "Megatexture">>)

AddClippingPlanes(b, clippingPlanes, clippingPlanesLength) ==
    IF clippingPlanesLength > 0
    THEN LET b1 == addDefine(b, "CLIPPING_PLANES", NoValue, FRAGMENT)
             b2 == addDefine(b1, "CLIPPING_PLANES_COUNT",
                             NumberValue(clippingPlanesLength), FRAGMENT)
             b3 == IF clippingPlanes.unionClippingRegions
                   THEN addDefine(b2, "CLIPPING_PLANES_UNION", NoValue, FRAGMENT)
                   ELSE b2
         IN  addFragmentLines(b3, <<"IntersectClippingPlanes">>)
    ELSE b

AddDepthTest(b, depthTest) ==
    IF depthTest
    THEN addFragmentLines(addDefine(b, "DEPTH_TEST", NoValue, FRAGMENT),
                          <<"IntersectDepth">>)
    ELSE b

\* variant: BOX adds its fragments in the order of the other two shapes
AddShapeBoxIntersectionFirst(b, shapeType) ==
    IF shapeType = "BOX"
    THEN addFragmentLines(addDefine(b, "SHAPE_BOX", NoValue, FRAGMENT),
                          <<"IntersectBox", "Intersection", "convertUvToBox">>)
    ELSE IF shapeType = "CYLINDER"
    THEN addFragmentLines(b,
             <<"IntersectCylinder", "Intersection", "convertUvToCylinder">>)
    ELSE IF shapeType = "ELLIPSOID"
    THEN addFragmentLines(b,
             <<"IntersectEllipsoid", "Intersection", "convertUvToEllipsoid">>)
    ELSE b

AddShape(b, shapeType) ==
    IF shapeType = "BOX"
    THEN addFragmentLines(addDefine(b, "SHAPE_BOX", NoValue, FRAGMENT),
                          <<"convertUvToBox", "IntersectBox", "Intersection">>)
    ELSE IF shapeType = "CYLINDER"
    THEN addFragmentLines(b,
             <<"IntersectCylinder", "Intersection", "convertUvToCylinder">>)
    ELSE IF shapeType = "ELLIPSOID"
    THEN addFragmentLines(b,
             <<"IntersectEllipsoid", "Intersection", "convertUvToEllipsoid">>)
    ELSE b

AddVoxelFS(b) == addFragmentLines(b, <<"VoxelFS">>)

\* variant: true is passed on as the value instead of undefined
AddShapeDefineTrueAsText(b, key, value) ==
    IF value.kind # "undefined"
    THEN addDefine(b, key,
                   IF value.kind = "true" THEN TextValue("true")
                   ELSE NumberValue(value.num),
                   FRAGMENT)
    ELSE b

\* the body of the loop over shapeDefines: undefined is skipped, true
\* defines the key with no text, any other value is the text
AddShapeDefine(b, key, value) ==
    IF value.kind # "undefined"
    THEN addDefine(b, key,
                   IF value.kind = "true" THEN NoValue
                   ELSE NumberValue(value.num),
                   FRAGMENT)
    ELSE b

\* for (const key in shapeDefines), in the order of the keys
RECURSIVE AddShapeDefines(_, _)
AddShapeDefines(b, shapeDefines) ==
    IF shapeDefines = <<>> THEN b
    ELSE AddShapeDefines(
             AddShapeDefine(b, Head(shapeDefines).key, Head(shapeDefines).value),
             Tail(shapeDefines))

\* variant: union mode is not told apart
ClippingIntersectionsNoUnion(clippingPlanes, clippingPlanesLength) ==
    IF clippingPlanesLength = 1 THEN 1
    ELSE 1

\* what the clipping planes add to intersectionCount
ClippingIntersections(clippingPlanes, clippingPlanesLength) ==
    IF clippingPlanesLength = 1 THEN 1
    ELSE IF clippingPlanes.unionClippingRegions THEN 2
    ELSE 1

\* variant: the depth slot is allocated before the clipping slot
AddIntersectionDefinesDepthFirst(b, shape, clippingPlanes, clippingPlanesLength, depthTest) ==
    LET count0 == shape.shaderMaximumIntersectionsLength
        b1 == IF depthTest
              THEN addDefine(b, "DEPTH_INTERSECTION_INDEX",
                             NumberValue(count0), FRAGMENT)
              ELSE b
        count1 == IF depthTest THEN count0 + 1 ELSE count0
        b2 == IF clippingPlanesLength > 0
              THEN addDefine(b1, "CLIPPING_PLANES_INTERSECTION_INDEX",
                             NumberValue(count1), FRAGMENT)
              ELSE b1
        count2 == IF clippingPlanesLength > 0
                  THEN count1 + ClippingIntersections(clippingPlanes,
                                                      clippingPlanesLength)
                  ELSE count1
    IN  addDefine(b2, "INTERSECTION_COUNT", NumberValue(count2), FRAGMENT)

AddIntersectionDefines(b, shape, clippingPlanes, clippingPlanesLength, depthTest) ==
    LET count0 == shape.shaderMaximumIntersectionsLength
        b1 == IF clippingPlanesLength > 0
              THEN addDefine(b, "CLIPPING_PLANES_INTERSECTION_INDEX",
                             NumberValue(count0), FRAGMENT)
              ELSE b
        count1 == IF clippingPlanesLength > 0
                  THEN count0 + ClippingIntersections(clippingPlanes,
                                                      clippingPlanesLength)
                  ELSE count0
        b2 == IF depthTest
              THEN addDefine(b1, "DEPTH_INTERSECTION_INDEX",
                             NumberValue(count1), FRAGMENT)
              ELSE b1
        count2 == IF depthTest THEN count1 + 1 ELSE count1
    IN  addDefine(b2, "INTERSECTION_COUNT", NumberValue(count2), FRAGMENT)

\* variant: LOG_DEPTH_READ_ONLY is set only when the depth test is on
AddAdditionalDefinesLogDepthWithDepthTest(b, p) ==
    LET b1 == IF ~Cartesian3equals(p.paddingBefore, Cartesian3ZERO)
                 \/ ~Cartesian3equals(p.paddingAfter, Cartesian3ZERO)
              THEN addDefine(b, "PADDING", NoValue, FRAGMENT)
              ELSE b
        b2 == IF p._depthTest /\ p._useLogDepth
              THEN addDefine(b1, "LOG_DEPTH_READ_ONLY", NoValue, FRAGMENT)
              ELSE b1
        b3 == IF p._jitter
              THEN addDefine(b2, "JITTER", NoValue, FRAGMENT)
              ELSE b2
    IN  IF p._nearestSampling
        THEN addDefine(b3, "NEAREST_SAMPLING", NoValue, FRAGMENT)
        ELSE b3

AddAdditionalDefines(b, p) ==
    LET b1 == IF ~Cartesian3equals(p.paddingBefore, Cartesian3ZERO)
                 \/ ~Cartesian3equals(p.paddingAfter, Cartesian3ZERO)
              THEN addDefine(b, "PADDING", NoValue, FRAGMENT)
              ELSE b
        b2 == IF p._useLogDepth
              THEN addDefine(b1, "LOG_DEPTH_READ_ONLY", NoValue, FRAGMENT)
              ELSE b1
        b3 == IF p._jitter
              THEN addDefine(b2, "JITTER", NoValue, FRAGMENT)
              ELSE b2
    IN  IF p._nearestSampling
        THEN addDefine(b3, "NEAREST_SAMPLING", NoValue, FRAGMENT)
        ELSE b3

AddSampleCount(b, traversal) ==
    addDefine(b, "SAMPLE_COUNT",
              TextValue(TemplateString(traversal._sampleCount)), FRAGMENT)

\* The whole constructor: the statements of the function in their order.
\* shaderBuilder is the builder line 31 creates, id the identity of the
\* object that combine returns.  The result is the new object ("this") and
\* the primitive as the constructor leaves it.
VoxelRenderResources(p, shaderBuilder, id) ==
    LET customShader == p._customShader
        uniformMap == combine(p._uniformMap, customShader.uniformMap, id)
        clippingPlanes == p._clippingPlanes
        clippingPlanesLength == ClippingPlanesLength(clippingPlanes)
        b1 == AddCustomShaderUniforms(shaderBuilder, customShader.uniforms)
        b2 == AddMegatextureUniform(b1)
        b3 == AddVertexShader(b2)
        b4 == AddBaseFragmentLines(b3, customShader)
        b5 == AddClippingPlanes(b4, clippingPlanes, clippingPlanesLength)
        b6 == AddDepthTest(b5, p._depthTest)
        b7 == AddShape(b6, p._provider.shape)
        b8 == AddVoxelFS(b7)
        b9 == AddShapeDefines(b8, p._shape.shaderDefines)
        b10 == AddIntersectionDefines(b9, p._shape, clippingPlanes,
                                      clippingPlanesLength, p._depthTest)
        b11 == AddAdditionalDefines(b10, p)
        b12 == AddSampleCount(b11, p._traversal)
    IN  [this |-> [built |-> TRUE,
                   shaderBuilder |-> b12,
                   uniformMap |-> uniformMap,
                   clippingPlanes |-> clippingPlanes,
                   clippingPlanesLength |-> clippingPlanesLength],
         primitive |-> [p EXCEPT !._uniformMap = uniformMap]]

----------------------------------------------------------------------------
(* The primitives the constructor is run on. *)

ShapeTypes == {"BOX", "CYLINDER", "ELLIPSOID"}
\* primitive._provider.shape is a string: it may be none of the three
ProviderShapes == ShapeTypes \cup {"SPHERE"}

UndefinedClippingPlanes ==
    [defined |-> FALSE, enabled |-> FALSE, length |-> 0,
     unionClippingRegions |-> FALSE]
ClippingPlaneCollections ==
    {UndefinedClippingPlanes} \cup
    [defined : {TRUE}, enabled : BOOLEAN, length : 0..MaxPlanes,
     unionClippingRegions : BOOLEAN]

Paddings == {Cartesian3ZERO, <<0, 1, 0>>}
SampleCounts == {7, 64}

\* customShader.uniforms: an object, its keys in insertion order
UniformNames == {"u_a", "u_b"}
UniformTypes == {"float", "vec3"}
CustomUniformObjects ==
    {s \in UNION {[1..k -> [name : UniformNames, type : UniformTypes]] :
                     k \in 0..Cardinality(UniformNames)} :
        \A i, j \in 1..Len(s) : i # j => s[i].name # s[j].name}

\* customShader.uniformMap: one accessor per declared uniform
CustomUniformMap(uniforms) ==
    UniformMapObject(1, [k \in {u.name : u \in Range(uniforms)} |-> "customShader"])

CustomShader(uniforms) ==
    [fragmentShaderText |-> "fragmentShaderText",
     uniforms |-> uniforms,
     uniformMap |-> CustomUniformMap(uniforms)]

\* primitive._uniformMap before the first construction
PrimitiveUniformMaps ==
    {UniformMapObject(0, [k \in names |-> "primitive"]) :
        names \in {{"u_base"}, {"u_base", "u_a"}}}

\* shape.shaderDefines: an object, its keys in insertion order
ShapeDefineKeys == {"BOX_HAS_RENDER_BOUNDS", "BOX_INTERSECTION_INDEX"}
ShapeDefineValues == {JsUndefined, JsTrue, JsNumber(0)}
ShapeDefineObjects ==
    {s \in UNION {[1..k -> [key : ShapeDefineKeys, value : ShapeDefineValues]] :
                     k \in 0..Cardinality(ShapeDefineKeys)} :
        \A i, j \in 1..Len(s) : i # j => s[i].key # s[j].key}

Primitive(customShader, uniformMap, clippingPlanes, depthTest, shapeType, shape, paddingBefore, paddingAfter, useLogDepth, jitter, nearestSampling, sampleCount) ==
    [_customShader |-> customShader,
     _uniformMap |-> uniformMap,
     _clippingPlanes |-> clippingPlanes,
     _depthTest |-> depthTest,
     _provider |-> [shape |-> shapeType],
     _shape |-> shape,
     paddingBefore |-> paddingBefore,
     paddingAfter |-> paddingAfter,
     _useLogDepth |-> useLogDepth,
     _jitter |-> jitter,
     _nearestSampling |-> nearestSampling,
     _traversal |-> [_sampleCount |-> sampleCount]]

\* Every combination of the switches the constructor branches on, with one
\* custom uniform and one shape define.
SwitchPrimitives ==
    {Primitive(CustomShader(<<[name |-> "u_a", type |-> "float"]>>),
               UniformMapObject(0, [k \in {"u_base"} |-> "primitive"]),
               cp, dt, st,
               [shaderDefines |-> <<[key |-> "BOX_HAS_RENDER_BOUNDS",
                                     value |-> JsTrue]>>,
                shaderMaximumIntersectionsLength |-> m],
               pb, pa, ld, ji, ns, sc) :
        cp \in ClippingPlaneCollections, dt \in BOOLEAN, st \in ProviderShapes,
        m \in 0..MaxShapeIntersections, pb \in Paddings, pa \in Paddings,
        ld \in BOOLEAN, ji \in BOOLEAN, ns \in BOOLEAN, sc \in SampleCounts}

\* Every combination of the tables the constructor iterates over, with the
\* clipping planes off or on and the other switches off.
TablePrimitives ==
    {Primitive(CustomShader(cu), um, cp, dt, st,
               [shaderDefines |-> sd, shaderMaximumIntersectionsLength |-> 1],
               Cartesian3ZERO, Cartesian3ZERO, FALSE, FALSE, FALSE, 64) :
        cu \in CustomUniformObjects, um \in PrimitiveUniformMaps,
        cp \in {UndefinedClippingPlanes,
                [defined |-> TRUE, enabled |-> TRUE, length |-> 2,
                 unionClippingRegions |-> TRUE]},
        dt \in BOOLEAN, st \in ProviderShapes, sd \in ShapeDefineObjects}

NoResources ==
    [built |-> FALSE,
     shaderBuilder |-> ShaderBuilder,
     uniformMap |-> UniformMapObject(0, <<>>),
     clippingPlanes |-> UndefinedClippingPlanes,
     clippingPlanesLength |-> 0]

\* The switch primitives share no key between the two uniform maps, so the
\* precedence of combine shows only on the table primitives.
Init ==
    /\ \/ primitive \in SwitchPrimitives /\ firstWins = TRUE
       \/ primitive \in TablePrimitives /\ firstWins \in BOOLEAN
    /\ resources = NoResources
    /\ builds = 0

\* variant: the constructor goes on with the builder of the build before
ConstructSharedBuilder ==
    /\ builds < MaxBuilds
    /\ LET r == VoxelRenderResources(primitive, resources.shaderBuilder,
                                     builds + 2)
       IN  /\ resources' = r.this
           /\ primitive' = r.primitive
    /\ builds' = builds + 1
    /\ UNCHANGED firstWins

\* new VoxelRenderResources(primitive)
Construct ==
    /\ builds < MaxBuilds
    /\ LET r == VoxelRenderResources(primitive, ShaderBuilder, builds + 2)
       IN  /\ resources' = r.this
           /\ primitive' = r.primitive
    /\ builds' = builds + 1
    /\ UNCHANGED firstWins

Next == Construct

Spec == Init /\ [][Next]_vars

----------------------------------------------------------------------------
(* What the claims read off the object built last. *)

FragmentLines == resources.shaderBuilder.fragmentLines
FragmentDefines == resources.shaderBuilder.fragmentDefines
FragmentUniforms == resources.shaderBuilder.fragmentUniforms

DefinePositions(name) ==
    {i \in 1..Len(FragmentDefines) : FragmentDefines[i].name = name}
IsDefined(name) == DefinePositions(name) # {}
\* name is defined once, with this value
DefinedAs(name, value) ==
    /\ Cardinality(DefinePositions(name)) = 1
    /\ \A i \in DefinePositions(name) : FragmentDefines[i].value = value
\* the numbers the define is given
DefineNumbers(name) ==
    {FragmentDefines[i].value.num : i \in DefinePositions(name)}
HasFragment(text) == text \in Range(FragmentLines)

\* the configuration as the claims name it
M == primitive._shape.shaderMaximumIntersectionsLength
PlaneCount ==
    IF primitive._clippingPlanes.defined /\ primitive._clippingPlanes.enabled
    THEN primitive._clippingPlanes.length
    ELSE 0
UnionMode == primitive._clippingPlanes.unionClippingRegions
DepthTest == primitive._depthTest
ClippingAdvance ==
    IF PlaneCount = 0 THEN 0
    ELSE IF PlaneCount = 1 THEN 1
    ELSE IF UnionMode THEN 2
    ELSE 1
DepthAdvance == IF DepthTest THEN 1 ELSE 0
ShapeDefines == primitive._shape.shaderDefines
CustomUniforms == primitive._customShader.uniforms
UniformPositions(name) ==
    {i \in 1..Len(FragmentUniforms) : FragmentUniforms[i].name = name}

\* the conversion and intersection fragments of a shape
ShapeFragmentsOf(shapeType) ==
    CASE shapeType = "BOX" -> {"convertUvToBox", "IntersectBox"}
      [] shapeType = "CYLINDER" -> {"convertUvToCylinder", "IntersectCylinder"}
      [] shapeType = "ELLIPSOID" -> {"convertUvToEllipsoid", "IntersectEllipsoid"}
      [] OTHER -> {}
AllShapeFragments ==
    UNION {ShapeFragmentsOf(shapeType) : shapeType \in ShapeTypes}
\* both fragments occur once, first ahead of second
Before(first, second) ==
    /\ Count(FragmentLines, first) = 1
    /\ Count(FragmentLines, second) = 1
    /\ IndexOf(FragmentLines, first) < IndexOf(FragmentLines, second)

----------------------------------------------------------------------------
\* C1: in every build the INTERSECTION_COUNT define is M + c + (1 if depth
\* test), with c = 0 without planes, 1 for one plane, 2 for several planes
\* in union mode and 1 for several planes otherwise.
C1_IntersectionCount ==
    resources.built =>
        DefinedAs("INTERSECTION_COUNT",
                  NumberValue(M + ClippingAdvance + DepthAdvance))

C1_Witness ==
    /\ resources.built
    /\ PlaneCount > 1 /\ UnionMode /\ DepthTest
    /\ DefinedAs("INTERSECTION_COUNT", NumberValue(M + 3))

\* C2: the clipping index is M whenever clipping is on; the depth index is
\* M plus the clipping advance whenever depth test is on, hence greater than
\* the clipping index when both are on; every assigned index is at least M
\* and below INTERSECTION_COUNT.
C2_SlotOrder ==
    resources.built =>
        /\ PlaneCount > 0 =>
               DefinedAs("CLIPPING_PLANES_INTERSECTION_INDEX", NumberValue(M))
        /\ DepthTest =>
               DefinedAs("DEPTH_INTERSECTION_INDEX",
                         NumberValue(M + ClippingAdvance))
        /\ (PlaneCount > 0 /\ DepthTest) =>
               \A c \in DefineNumbers("CLIPPING_PLANES_INTERSECTION_INDEX"),
                  d \in DefineNumbers("DEPTH_INTERSECTION_INDEX") : c < d
        /\ \A name \in {"CLIPPING_PLANES_INTERSECTION_INDEX",
                        "DEPTH_INTERSECTION_INDEX"} :
               \A x \in DefineNumbers(name),
                  n \in DefineNumbers("INTERSECTION_COUNT") : M <= x /\ x < n

C2_Witness ==
    /\ resources.built
    /\ PlaneCount > 1 /\ UnionMode /\ DepthTest
    /\ DefinedAs("CLIPPING_PLANES_INTERSECTION_INDEX", NumberValue(M))
    /\ DefinedAs("DEPTH_INTERSECTION_INDEX", NumberValue(M + 2))

\* C3: the conditional defines and fragments follow the configuration:
\* PADDING iff a padding vector is not zero; JITTER, NEAREST_SAMPLING and
\* LOG_DEPTH_READ_ONLY iff their own flag (whatever the depth test);
\* DEPTH_TEST, IntersectDepth and DEPTH_INTERSECTION_INDEX iff depth test;
\* CLIPPING_PLANES, CLIPPING_PLANES_COUNT, IntersectClippingPlanes and
\* CLIPPING_PLANES_INTERSECTION_INDEX iff the collection is defined, enabled
\* and not empty.
C3_ConditionalDefines ==
    resources.built =>
        /\ IsDefined("PADDING") <=>
               (primitive.paddingBefore # <<0, 0, 0>>
                \/ primitive.paddingAfter # <<0, 0, 0>>)
        /\ IsDefined("JITTER") <=> primitive._jitter
        /\ IsDefined("NEAREST_SAMPLING") <=> primitive._nearestSampling
        /\ IsDefined("LOG_DEPTH_READ_ONLY") <=> primitive._useLogDepth
        /\ IsDefined("DEPTH_TEST") <=> primitive._depthTest
        /\ HasFragment("IntersectDepth") <=> primitive._depthTest
        /\ IsDefined("DEPTH_INTERSECTION_INDEX") <=> primitive._depthTest
        /\ \A name \in {"CLIPPING_PLANES", "CLIPPING_PLANES_COUNT",
                        "CLIPPING_PLANES_INTERSECTION_INDEX"} :
               IsDefined(name) <=>
                   (/\ primitive._clippingPlanes.defined
                    /\ primitive._clippingPlanes.enabled
                    /\ primitive._clippingPlanes.length > 0)
        /\ HasFragment("IntersectClippingPlanes") <=>
               (/\ primitive._clippingPlanes.defined
                /\ primitive._clippingPlanes.enabled
                /\ primitive._clippingPlanes.length > 0)

C3_Witness ==
    /\ resources.built
    /\ primitive._useLogDepth /\ ~primitive._depthTest
    /\ IsDefined("LOG_DEPTH_READ_ONLY") /\ ~IsDefined("DEPTH_TEST")
    /\ primitive._clippingPlanes.defined
    /\ ~primitive._clippingPlanes.enabled
    /\ primitive._clippingPlanes.length > 0
    /\ ~IsDefined("CLIPPING_PLANES")
    /\ primitive.paddingBefore = <<0, 0, 0>>
    /\ primitive.paddingAfter # <<0, 0, 0>>
    /\ IsDefined("PADDING")

\* C4: of the entries of shape.shaderDefines, in their order, an undefined
\* one defines nothing, a true one is defined with no text, and any other
\* one is defined with its value as the text.
C4_ShapeDefines ==
    resources.built =>
        /\ \A i \in 1..Len(ShapeDefines) :
               LET key == ShapeDefines[i].key
                   value == ShapeDefines[i].value
               IN  CASE value.kind = "undefined" -> ~IsDefined(key)
                     [] value.kind = "true" -> DefinedAs(key, NoValue)
                     [] OTHER -> DefinedAs(key, NumberValue(value.num))
        /\ \A i, j \in 1..Len(ShapeDefines) :
               i < j =>
                   \A x \in DefinePositions(ShapeDefines[i].key),
                      y \in DefinePositions(ShapeDefines[j].key) : x < y

C4_Witness ==
    /\ resources.built
    /\ Len(ShapeDefines) = 2
    /\ ShapeDefines[1].value = JsUndefined
    /\ ShapeDefines[2].value = JsTrue
    /\ ~IsDefined(ShapeDefines[1].key)
    /\ DefinedAs(ShapeDefines[2].key, NoValue)

\* C5: every build declares sampler2D u_megatextureTextures[METADATA_COUNT]
\* once in the fragment stage, and one uniform of the declared type per
\* entry of customShader.uniforms, each before the reserved one.
C5_ReservedUniform ==
    resources.built =>
        /\ Cardinality(UniformPositions("u_megatextureTextures[METADATA_COUNT]")) = 1
        /\ \A r \in UniformPositions("u_megatextureTextures[METADATA_COUNT]") :
               /\ FragmentUniforms[r].type = "sampler2D"
               /\ \A u \in Range(CustomUniforms) :
                      /\ Cardinality(UniformPositions(u.name)) = 1
                      /\ \A i \in UniformPositions(u.name) :
                             FragmentUniforms[i].type = u.type /\ i < r
        /\ Len(FragmentUniforms) = Len(CustomUniforms) + 1
        /\ resources.shaderBuilder.vertexUniforms = <<>>

C5_Witness ==
    /\ resources.built
    /\ Len(CustomUniforms) = 2
    /\ Len(FragmentUniforms) = 3
    /\ FragmentUniforms[3].name = "u_megatextureTextures[METADATA_COUNT]"

\* C6: for BOX the conversion fragment comes before the shape intersection
\* fragment, for CYLINDER and ELLIPSOID the shape intersection fragment comes
\* first; the generic Intersection fragment is added once and no fragment
\* of another shape is added.
C6_ShapeFragmentOrder ==
    (resources.built /\ primitive._provider.shape \in ShapeTypes) =>
        /\ primitive._provider.shape = "BOX" =>
               Before("convertUvToBox", "IntersectBox")
        /\ primitive._provider.shape = "CYLINDER" =>
               Before("IntersectCylinder", "convertUvToCylinder")
        /\ primitive._provider.shape = "ELLIPSOID" =>
               Before("IntersectEllipsoid", "convertUvToEllipsoid")
        /\ Count(FragmentLines, "Intersection") = 1
        /\ Range(FragmentLines) \cap AllShapeFragments
               = ShapeFragmentsOf(primitive._provider.shape)

C6_Witness ==
    /\ resources.built
    /\ primitive._provider.shape = "BOX"
    /\ Before("convertUvToBox", "IntersectBox")
    /\ Before("IntersectBox", "Intersection")

\* C7: a build whose shape kind is none of BOX, CYLINDER, ELLIPSOID aborts:
\* no object is built without the conversion and intersection fragments of
\* a shape.
C7_UnknownShapeAborts ==
    (resources.built /\ ~resources.shaderBuilder.failed) =>
        /\ primitive._provider.shape \in ShapeTypes
        /\ Range(FragmentLines) \cap AllShapeFragments # {}
        /\ HasFragment("Intersection")

\* C8: a build changes no field of the primitive it is given, the
\* _uniformMap reference included.
C8_PrimitiveUnchanged == [][primitive' = primitive]_vars

\* C9: a build repeated on the same primitive yields the same vertex and
\* fragment lines, the same uniform declarations and defines in the same
\* order, and a uniform map with the same keys and the same accessor per key.
C9_RepeatedBuild ==
    [][resources.built =>
          /\ resources'.shaderBuilder = resources.shaderBuilder
          /\ resources'.uniformMap.entries = resources.uniformMap.entries
          /\ resources'.clippingPlanesLength = resources.clippingPlanesLength]_vars

C9_Witness ==
    /\ builds >= 2
    /\ resources.built
    /\ Len(CustomUniforms) = 2
    /\ "u_a" \in DOMAIN resources.uniformMap.entries
    /\ Len(FragmentUniforms) = 3

\* C10: the fragment stage starts with the custom shader text, the line
\* marker, Octree, IntersectionUtils and Megatexture in this order; the
\* clipping fragment comes before the depth fragment, both before every
\* shape fragment; VoxelFS is last; the vertex stage is VoxelVS alone.
C10_FragmentOrder ==
    resources.built =>
        /\ Len(FragmentLines) >= 6
        /\ SubSeq(FragmentLines, 1, 5) =
               <<primitive._customShader.fragmentShaderText, "#line 0",
                 "Octree", "IntersectionUtils", "Megatexture">>
        /\ (HasFragment("IntersectClippingPlanes") /\ HasFragment("IntersectDepth"))
               => Before("IntersectClippingPlanes", "IntersectDepth")
        /\ \A i, j \in 1..Len(FragmentLines) :
               (/\ FragmentLines[i] \in {"IntersectClippingPlanes", "IntersectDepth"}
                /\ FragmentLines[j] \in AllShapeFragments \cup {"Intersection"})
               => i < j
        /\ FragmentLines[Len(FragmentLines)] = "VoxelFS"
        /\ Count(FragmentLines, "VoxelFS") = 1
        /\ resources.shaderBuilder.vertexLines = <<"VoxelVS">>

C10_Witness ==
    /\ resources.built
    /\ primitive._provider.shape = "CYLINDER"
    /\ Before("IntersectClippingPlanes", "IntersectDepth")
    /\ Before("IntersectDepth", "IntersectCylinder")
    /\ Before("convertUvToCylinder", "VoxelFS")

====
